---- MODULE Spec2Model ----
(***************************************************************************)
(* The colour control of the Backbone.js TDD tutorial: ControlColor (the   *)
(* model holding `options` and `checked`) and ControlColorView (the view   *)
(* rendering one checkbox per option and feeding user toggles back).       *)
(*                                                                         *)
(* JavaScript arrays are objects: an attribute holds a reference, and two  *)
(* attributes (of one instance or of several) may hold the same array.     *)
(* Every array lives in `heap` and is referred to by its index: the two    *)
(* `defaults` literals of the prototype, the lists callers hand to the     *)
(* constructor and to set, the lists handleChange and updateChecked make.  *)
(* An array no instance refers to any more is dropped from the heap; a     *)
(* caller that kept it and hands it over again is a caller handing over a  *)
(* new array of the same contents.                                         *)
(***************************************************************************)
EXTENDS Integers, Sequences, FiniteSets, TLC

VARIABLES heap, models, last

vars == <<heap, models, last>>

\* Bounds of the exploration: the longest list handed to set( 'checked', ... )
\* of a single instance, the longest option list handed to the constructor
\* and the number of instances that share the prototype.
MaxLen == 2
MaxOpts == 2
MaxModels == 2

Colors == {"red", "green"}
Ids == Colors \cup {"all"}

\* The lists over S of length at most n (an identifier may occur twice: the
\* code never checks).
ListsUpTo(S, n) == UNION {[1..k -> S] : k \in 0..n}

\* The list the model's test hands to set( 'checked', ... ).
TestList == <<"all", "red", "green">>

\* The new lists a caller may hand to set( 'checked', ... ) or to the
\* constructor.
CheckedLists == ListsUpTo(Ids, MaxLen) \cup {TestList}
\* The new lists handed over when several instances are explored: the empty
\* list and each identifier alone.
ShortLists == {<<>>, <<"all">>, <<"red">>, <<"green">>}
\* The new option lists a caller may hand to the constructor.
OptionLists == ListsUpTo(Colors, MaxOpts)
\* The new option lists handed over when several instances are explored.
SharedOptionLists == {<<>>, <<"red">>, <<"red", "green">>}

\* Heap slots of the two array literals of ControlColor.prototype.defaults.
DefaultsOptions == 1
DefaultsChecked == 2

\* The array a reference stands for.
Deref(h, a) == h[a]

----------------------------------------------------------------------------
\* Underscore helpers, as used by the model and the view.

contains(list, x) == \E i \in DOMAIN list : list[i] = x

without(list, x) == SelectSeq(list, LAMBDA e : e # x)

\* A comparison of the two arrays that never finds them alike.
isIdentical(a, b) == FALSE

isEqual(a, b) == a = b

\* _.pluck without the :checked filter of the selector.
pluckAll(dom) == [k \in DOMAIN dom |-> dom[k].value]

\* _.pluck( $( 'input:checked' ), 'value' ): the values of the checked
\* controls, in document order.
RECURSIVE pluckChecked(_)
pluckChecked(dom) ==
    IF dom = <<>> THEN <<>>
    ELSE (IF Head(dom).checked THEN <<Head(dom).value>> ELSE <<>>)
         \o pluckChecked(Tail(dom))

----------------------------------------------------------------------------
\* ControlColorView.render

\* The _.each loop of render: one <input type="checkbox"> pushed per option.
RECURSIVE eachOption(_, _, _)
eachOption(options, checked, items) ==
    IF options = <<>> THEN items
    ELSE eachOption(Tail(options), checked,
                    Append(items, [value   |-> Head(options),
                                   checked |-> contains(checked, Head(options))]))

\* this.$el.empty().append( items ), without the empty().
renderAccumulating(c) ==
    [c EXCEPT !.dom = @ \o eachOption(Deref(c.heap, c.options), Deref(c.heap, c.checked), <<>>)]

\* render(): c is the call context (the model's attributes, the heap and the
\* view's element).
render(c) ==
    [c EXCEPT !.dom = eachOption(Deref(c.heap, c.options), Deref(c.heap, c.checked), <<>>)]

----------------------------------------------------------------------------
\* Backbone.Model.set restricted to the `checked` attribute, Events.trigger
\* and ControlColor.updateChecked. They call each other. An array argument
\* is a reference into the heap of the call context.

RECURSIVE set(_, _, _)
RECURSIVE updateChecked(_, _)

\* The view's subscription: listenTo( model, 'change:checked', render ).
notifyView(c, payload) ==
    IF c.view
    THEN [render(c) EXCEPT !.notes = @ + 1,
                           !.payload = Append(@, Deref(c.heap, payload))]
    ELSE c

\* trigger( 'change:checked', model, value ) handing each handler the
\* reconciled value instead of the value set.
triggerReconciled(c, payload) ==
    LET c1 == IF c.plain THEN c ELSE updateChecked(c, payload)
    IN  notifyView(c1, c1.checked)

\* trigger( 'change:checked', model, value ): the handlers in the order they
\* subscribed: the model's own updateChecked (if it is a ControlColor), then
\* the view's render. Each is handed the value that was set.
trigger(c, payload) ==
    notifyView(IF c.plain THEN c ELSE updateChecked(c, payload), payload)

\* set( 'checked', val, { silent } ): a change is detected with _.isEqual
\* against the current value; the array is stored in either case.
set(c, val, silent) ==
    LET changes == ~isEqual(Deref(c.heap, c.checked), Deref(c.heap, val))
        c1      == [c EXCEPT !.checked = val]
    IN  IF ~silent /\ changes THEN trigger(c1, val) ELSE c1

\* updateChecked with the two membership tests exchanged.
updateCheckedSwapped(c, checked) ==
    LET c1 == [c EXCEPT !.updates = @ + 1]
    IN  IF contains(c.previous, "all")
        THEN LET c2 == [c1 EXCEPT !.heap =
                           Append(@, IF contains(Deref(c.heap, checked), "all")
                                     THEN without(Deref(c.heap, checked), "all")
                                     ELSE <<"all">>)]
             IN  set(c2, Len(c2.heap), TRUE)
        ELSE c1

\* updateChecked as first written in the tutorial: no look at the previous value.
updateCheckedNoPrevious(c, checked) ==
    LET c1 == [c EXCEPT !.updates = @ + 1]
    IN  IF contains(Deref(c.heap, checked), "all")
        THEN LET c2 == [c1 EXCEPT !.heap = Append(@, <<"all">>)]
             IN  set(c2, Len(c2.heap), TRUE)
        ELSE c1

\* updateChecked writing its correction without { silent: true }.
updateCheckedLoud(c, checked) ==
    LET c1 == [c EXCEPT !.updates = @ + 1]
    IN  IF contains(Deref(c.heap, checked), "all")
        THEN LET c2 == [c1 EXCEPT !.heap =
                           Append(@, IF contains(c.previous, "all")
                                     THEN without(Deref(c.heap, checked), "all")
                                     ELSE <<"all">>)]
             IN  set(c2, Len(c2.heap), FALSE)
        ELSE c1

\* updateChecked taking 'all' out of the previous value instead of the new one.
updateCheckedWithoutPrevious(c, checked) ==
    LET c1 == [c EXCEPT !.updates = @ + 1]
    IN  IF contains(Deref(c.heap, checked), "all")
        THEN LET c2 == [c1 EXCEPT !.heap =
                           Append(@, IF contains(c.previous, "all")
                                     THEN without(c.previous, "all")
                                     ELSE <<"all">>)]
             IN  set(c2, Len(c2.heap), TRUE)
        ELSE c1

\* updateChecked( model, checked ): itemsToCheck is a new array, made by
\* _.without or written as the literal [ 'all' ].
updateChecked(c, checked) ==
    LET c1 == [c EXCEPT !.updates = @ + 1]
    IN  IF contains(Deref(c.heap, checked), "all")
        THEN LET c2 == [c1 EXCEPT !.heap =
                           Append(@, IF contains(c.previous, "all")
                                     THEN without(Deref(c.heap, checked), "all")
                                     ELSE <<"all">>)]
             IN  set(c2, Len(c2.heap), TRUE)
        ELSE c1

\* The context of one outermost call on model i, on heap h: set() clones the
\* attributes into _previousAttributes before it changes anything.
Context(i, h) ==
    [heap     |-> h,
     options  |-> models[i].options,
     checked  |-> models[i].checked,
     previous |-> Deref(h, models[i].checked),
     view     |-> models[i].view,
     plain    |-> models[i].plain,
     dom      |-> models[i].dom,
     notes    |-> 0,
     updates  |-> 0,
     payload  |-> <<>>]

----------------------------------------------------------------------------
\* Arrays handed over by callers, and arrays nothing refers to any more.
\* (In the actions below, \E x \in {e} names the value of e.)

\* An array argument: a new array literal, or an array the caller got hold
\* of before: one it handed over earlier, one it read with get(), or one of
\* the prototype's defaults.
ArrayInputs(lists) ==
    {[kind |-> "literal", list |-> l, ref |-> 0] : l \in lists}
    \cup {[kind |-> "held", list |-> heap[r], ref |-> r] : r \in DOMAIN heap}

\* The heap once the caller has written its array literal, and the reference
\* the argument stands for on that heap.
Written(h, a) == IF a.kind = "literal" THEN Append(h, a.list) ELSE h
RefOf(h, a) == IF a.kind = "literal" THEN Len(h) ELSE a.ref

\* The references in use: the prototype's defaults, then each instance's
\* attributes.
RefSeq(ms) ==
    [n \in 1..(2 + 2 * Len(ms)) |->
        IF n = 1 THEN DefaultsOptions
        ELSE IF n = 2 THEN DefaultsChecked
        ELSE IF n % 2 = 1 THEN ms[(n - 1) \div 2].options
        ELSE ms[(n - 2) \div 2].checked]

\* The arrays in use, each once, in the order of seq.
RECURSIVE InUse(_, _)
InUse(seq, acc) ==
    IF seq = <<>> THEN acc
    ELSE InUse(Tail(seq), IF contains(acc, Head(seq)) THEN acc
                          ELSE Append(acc, Head(seq)))

\* The place of array r among the arrays in use.
NewRef(r, inUse) == CHOOSE j \in DOMAIN inUse : inUse[j] = r

\* The heap and the instances with the arrays nothing refers to dropped.
Collect(h, ms) ==
    LET inUse == InUse(RefSeq(ms), <<>>)
    IN  [heap   |-> [j \in DOMAIN inUse |-> h[inUse[j]]],
         models |-> [i \in DOMAIN ms |->
                        [ms[i] EXCEPT !.options = NewRef(@, inUse),
                                      !.checked = NewRef(@, inUse)]]]

----------------------------------------------------------------------------
\* ControlColor construction.

\* initialize( attrs ): attrs.options.push( 'all' ) on the array attrs holds
\* after _.defaults: the caller's array or the prototype's.
initialize(h, attrs) ==
    [h EXCEPT ![attrs.options] = Append(@, "all")]

\* What the caller passes as `options`: nothing or an array.
OptionInputs(lists) ==
    {[kind |-> "absent", list |-> <<>>, ref |-> 0]} \cup ArrayInputs(lists)

\* What the caller passes as `checked`: nothing, an array, or the very array
\* it passes as `options`.
CheckedInputs(lists) ==
    {[kind |-> "absent", list |-> <<>>, ref |-> 0],
     [kind |-> "same", list |-> <<>>, ref |-> 0]}
    \cup ArrayInputs(lists)

\* The record of the latest call: the operation, the instance, its argument
\* (the options of a construction) as it was when handed over, the checked
\* list before it, whether and which checked list a construction was given,
\* the controls a render or a change event found in the element, the control
\* the user clicked, whether a render follows a render of the same view with
\* nothing in between, and what the call did: view notifications,
\* updateChecked runs and the values handed to the view.
NoCall == [op |-> "none", m |-> 0, arg |-> <<>>, prev |-> <<>>, given |-> "",
           init |-> <<>>, dom |-> <<>>, n |-> 0, again |-> FALSE,
           notes |-> 0, updates |-> 0, payload |-> <<>>]

Init ==
    /\ heap = << <<>>, <<"all">> >>
    /\ models = <<>>
    /\ last = NoCall

\* new ControlColor( { options: o, checked: k } ): the constructor stores the
\* arrays of attrs, or those of defaults where attrs has none, then runs
\* initialize.
NewControlColor(o, k) ==
    /\ Len(models) < MaxModels
    /\ k.kind = "same" => o.kind = "literal"
    /\ \E h \in {Written(Written(heap, o), k)} :
       \E attrs \in {[options |-> IF o.kind = "absent" THEN DefaultsOptions
                                  ELSE RefOf(Written(heap, o), o),
                       checked |-> CASE k.kind = "absent" -> DefaultsChecked
                                     [] k.kind = "same"   -> RefOf(Written(heap, o), o)
                                     [] OTHER             -> RefOf(h, k)]} :
       \E g \in {Collect(initialize(h, attrs),
                          Append(models, [options |-> attrs.options,
                                          checked |-> attrs.checked,
                                          view    |-> FALSE,
                                          plain   |-> FALSE,
                                          dom     |-> <<>>]))} :
           /\ heap' = g.heap
           /\ models' = g.models
           /\ last' = [NoCall EXCEPT !.op = "new", !.m = Len(models) + 1,
                                     !.arg = o.list, !.given = k.kind,
                                     !.init = IF k.kind = "same" THEN o.list
                                              ELSE k.list]

\* new Backbone.Model( { options: o, checked: k } ): the plain model the view's
\* tests bind the view to. No defaults, no initialize, no updateChecked.
NewPlainModel(o, k) ==
    /\ Len(models) < MaxModels
    /\ \E g \in {Collect(heap \o <<o, k>>,
                          Append(models, [options |-> Len(heap) + 1,
                                          checked |-> Len(heap) + 2,
                                          view    |-> FALSE,
                                          plain   |-> TRUE,
                                          dom     |-> <<>>]))} :
           /\ heap' = g.heap
           /\ models' = g.models
    /\ last' = [NoCall EXCEPT !.op = "new", !.m = Len(models) + 1,
                              !.arg = o, !.given = "literal", !.init = k]

\* model.set( 'checked', a ) by any caller.
SetChecked(i, a) ==
    \E c \in {set(Context(i, Written(heap, a)), RefOf(Written(heap, a), a), FALSE)} :
    \E g \in {Collect(c.heap, [models EXCEPT ![i].checked = c.checked,
                                             ![i].dom = c.dom])} :
        /\ heap' = g.heap
        /\ models' = g.models
        /\ last' = [NoCall EXCEPT !.op = "set", !.m = i, !.arg = a.list,
                                  !.prev = Deref(heap, models[i].checked),
                                  !.notes = c.notes, !.updates = c.updates,
                                  !.payload = c.payload]

\* new ControlColorView( { model: models[i] } )
NewView(i) ==
    /\ ~models[i].view
    /\ models' = [models EXCEPT ![i].view = TRUE]
    /\ last' = [NoCall EXCEPT !.op = "view", !.m = i]
    /\ UNCHANGED heap

\* view.render()
Render(i) ==
    /\ models[i].view
    /\ models' = [models EXCEPT ![i].dom = render(Context(i, heap)).dom]
    /\ last' = [NoCall EXCEPT !.op = "render", !.m = i, !.dom = models[i].dom,
                              !.again = (last.op = "render" /\ last.m = i)]
    /\ UNCHANGED heap

\* The user clicks control n of the view of model i: the browser flips the
\* control and the 'change' event runs handleChange, which hands set the
\* array _.pluck made.
UserToggle(i, n) ==
    /\ models[i].view
    /\ n \in DOMAIN models[i].dom
    /\ \E flipped \in {[models[i].dom EXCEPT ![n].checked = ~@]} :
       \E checked \in {pluckChecked(flipped)} :
       \E c \in {set([Context(i, Append(heap, checked)) EXCEPT !.dom = flipped],
                     Len(heap) + 1, FALSE)} :
       \E g \in {Collect(c.heap, [models EXCEPT ![i].checked = c.checked,
                                                ![i].dom = c.dom])} :
           /\ heap' = g.heap
           /\ models' = g.models
           /\ last' = [NoCall EXCEPT !.op = "toggle", !.m = i, !.arg = checked,
                                     !.dom = flipped, !.n = n,
                                     !.prev = Deref(heap, models[i].checked),
                                     !.notes = c.notes, !.updates = c.updates,
                                     !.payload = c.payload]

\* One ControlColor and its view.
Next ==
    \/ \E o \in OptionInputs(OptionLists), k \in CheckedInputs(CheckedLists) :
          models = <<>> /\ NewControlColor(o, k)
    \/ \E i \in DOMAIN models, a \in ArrayInputs(CheckedLists) : SetChecked(i, a)
    \/ \E i \in DOMAIN models : NewView(i)
    \/ \E i \in DOMAIN models : Render(i)
    \/ \E i \in DOMAIN models : \E n \in DOMAIN models[i].dom : UserToggle(i, n)

Spec == Init /\ [][Next]_vars

\* Several ControlColor instances of the one prototype, and their views.
NextShared ==
    \/ \E o \in OptionInputs(SharedOptionLists), k \in CheckedInputs(ShortLists) : NewControlColor(o, k)
    \/ \E i \in DOMAIN models, a \in ArrayInputs(ShortLists) : SetChecked(i, a)
    \/ \E i \in DOMAIN models : NewView(i)
    \/ \E i \in DOMAIN models : Render(i)
    \/ \E i \in DOMAIN models : \E n \in DOMAIN models[i].dom : UserToggle(i, n)

SpecShared == Init /\ [][NextShared]_vars

\* Several ControlColor instances of the one prototype, without views.
NextModels ==
    \/ \E o \in OptionInputs(SharedOptionLists), k \in CheckedInputs(ShortLists) : NewControlColor(o, k)
    \/ \E i \in DOMAIN models, a \in ArrayInputs(ShortLists) : SetChecked(i, a)

SpecModels == Init /\ [][NextModels]_vars

\* One plain Backbone.Model and the view bound to it, as in the view's tests.
NextPlain ==
    \/ \E o \in OptionLists, k \in CheckedLists :
          models = <<>> /\ NewPlainModel(o, k)
    \/ \E i \in DOMAIN models, a \in ArrayInputs(CheckedLists) : SetChecked(i, a)
    \/ \E i \in DOMAIN models : NewView(i)
    \/ \E i \in DOMAIN models : Render(i)
    \/ \E i \in DOMAIN models : \E n \in DOMAIN models[i].dom : UserToggle(i, n)

SpecPlain == Init /\ [][NextPlain]_vars

----------------------------------------------------------------------------
\* Derived views of the state.

OptionsOf(i) == Deref(heap, models[i].options)
CheckedOf(i) == Deref(heap, models[i].checked)
Count(list, x) == Cardinality({i \in DOMAIN list : list[i] = x})
Elems(list) == {list[i] : i \in DOMAIN list}
Updated == last.op \in {"set", "toggle"}

----------------------------------------------------------------------------
\* Properties of set( 'checked', ... ): specification Spec.

\* C1: after every set( 'checked', ... ) the stored checked list is exactly
\* [ 'all' ] or holds no 'all' at all, whatever list the model was
\* constructed with. (Refuted: a model constructed with [ 'all', x ] keeps it
\* when it is set to the same list again.)
C1_AllIsExclusive ==
    Updated =>
        \/ CheckedOf(last.m) = <<"all">>
        \/ ~contains(CheckedOf(last.m), "all")

\* C2: a set whose list holds 'all', on a model whose checked list held no
\* 'all', stores exactly [ 'all' ].
C2_FreshAllStoresAllOnly ==
    (Updated /\ contains(last.arg, "all") /\ ~contains(last.prev, "all"))
        => CheckedOf(last.m) = <<"all">>

C2_Witness ==
    /\ Updated
    /\ contains(last.arg, "all") /\ Len(last.arg) > 1
    /\ ~contains(last.prev, "all") /\ last.prev # <<>>
    /\ CheckedOf(last.m) = <<"all">>

\* C3 as claimed: a set whose list holds 'all', on a model whose checked list
\* already held 'all', stores the list without 'all', also when the list
\* equals the previous value.
C3_Original ==
    (Updated /\ contains(last.arg, "all") /\ contains(last.prev, "all"))
        => CheckedOf(last.m) = without(last.arg, "all")

\* C3 as amended: a set whose list holds 'all' and differs from the previous
\* value, on a model whose checked list already held 'all', stores the list
\* without 'all'; a set whose list equals the previous value leaves it stored
\* as it is.
C3_RepeatedAllIsDropped ==
    (Updated /\ contains(last.arg, "all") /\ contains(last.prev, "all"))
        => CheckedOf(last.m) = IF isEqual(last.arg, last.prev)
                               THEN last.prev
                               ELSE without(last.arg, "all")

C3_Witness ==
    /\ Updated
    /\ contains(last.arg, "all") /\ contains(last.prev, "all")
    /\ last.arg # last.prev
    /\ CheckedOf(last.m) # <<>>
    /\ CheckedOf(last.m) = without(last.arg, "all")

\* C4: a set whose list holds no 'all' stores that list unchanged, whatever
\* the previous value and whether or not its identifiers are options.
C4_PassThrough ==
    (Updated /\ ~contains(last.arg, "all")) => CheckedOf(last.m) = last.arg

C4_Witness ==
    /\ Updated
    /\ ~contains(last.arg, "all")
    /\ contains(last.prev, "all")
    /\ \E e \in Elems(last.arg) : ~contains(OptionsOf(last.m), e)
    /\ CheckedOf(last.m) = last.arg

\* C5 as claimed: from checked = [ 'all' ], set( 'checked', [ 'all', 'red',
\* 'green' ] ) leaves checked = [ 'all' ].
C5_Original ==
    (last.op = "set" /\ last.prev = <<"all">>
        /\ last.arg = TestList)
        => CheckedOf(last.m) = <<"all">>

\* C5 as amended: from checked = [ 'all' ], set( 'checked', [ 'all', 'red',
\* 'green' ] ) leaves checked = [ 'red', 'green' ].
C5_AllThenOthers ==
    (last.op = "set" /\ last.prev = <<"all">>
        /\ last.arg = TestList)
        => CheckedOf(last.m) = <<"red", "green">>

C5_Witness ==
    /\ last.op = "set" /\ last.prev = <<"all">>
    /\ last.arg = TestList
    /\ CheckedOf(last.m) = <<"red", "green">>

----------------------------------------------------------------------------
\* Properties of construction: specifications SpecShared and SpecModels.

\* C6: a ControlColor constructed from an option list without 'all' (the
\* empty default when none is given) has every element of that list and
\* exactly one 'all' among its options, however many were constructed before.
\* (Refuted: the second model constructed without options has 'all' twice.)
C6_ExactlyOneAll ==
    (last.op = "new" /\ ~contains(last.arg, "all")) =>
        /\ \A e \in Elems(last.arg) : contains(OptionsOf(last.m), e)
        /\ Count(OptionsOf(last.m), "all") = 1

\* C7: the options of an existing instance never change: not by a set, a
\* render or a toggle, and not by the construction of another instance.
\* (Refuted: a construction pushes 'all' onto an array other models hold.)
C7_OptionsNeverChange ==
    [][\A i \in DOMAIN models :
          heap'[models'[i].options] = heap[models[i].options]]_vars

\* C8: a ControlColor constructed without a checked list has checked =
\* [ 'all' ], whatever was constructed and set before. (Refuted: a
\* construction handed the default checked array as its options pushes 'all'
\* onto it.)
C8_DefaultChecked ==
    (last.op = "new" /\ last.given = "absent") => CheckedOf(last.m) = <<"all">>

----------------------------------------------------------------------------
\* Properties of the notification and of render: specification Spec.

\* C9 as claimed: every set( 'checked', ... ) notifies the subscribed view
\* exactly once.
C9_Original ==
    (Updated /\ models[last.m].view) => last.notes = 1

\* C9 as amended: a set( 'checked', ... ) whose list differs from the stored
\* one notifies the subscribed view exactly once, within the call, and runs
\* the reconciliation once, corrective write included; a set whose list
\* equals the stored one notifies nobody.
C9_NotifiedOncePerChange ==
    (Updated /\ models[last.m].view) =>
        IF isEqual(last.arg, last.prev)
        THEN last.notes = 0 /\ last.updates = 0
        ELSE last.notes = 1 /\ last.updates = 1

C9_Witness ==
    /\ Updated /\ models[last.m].view
    /\ contains(last.arg, "all")
    /\ CheckedOf(last.m) # last.arg
    /\ last.notes = 1

\* C10: render() leaves one control per option, in the order of the options,
\* each with the option as its value and checked exactly when the option is
\* in the model's checked list.
C10_RenderMirrorsModel ==
    last.op = "render" =>
        LET dom == models[last.m].dom
            opts == OptionsOf(last.m)
        IN  /\ Len(dom) = Len(opts)
            /\ \A n \in DOMAIN dom :
                  /\ dom[n].value = opts[n]
                  /\ dom[n].checked = (opts[n] \in Elems(CheckedOf(last.m)))

C10_Witness ==
    /\ last.op = "render"
    /\ Len(models[last.m].dom) = 3
    /\ \E n \in DOMAIN models[last.m].dom : models[last.m].dom[n].checked
    /\ \E n \in DOMAIN models[last.m].dom : ~models[last.m].dom[n].checked

----------------------------------------------------------------------------
\* Properties of the view and of the notification, continued.

\* The controls of the view of model i show the model's checked list.
Mirrors(i) ==
    \A n \in DOMAIN models[i].dom :
        models[i].dom[n].checked = contains(CheckedOf(i), models[i].dom[n].value)

\* C11: a render() that follows a render() of the same view with nothing in
\* between leaves the controls as the first left them, one per option: the
\* controls are replaced, not added to.
C11_RenderIdempotent ==
    (last.op = "render" /\ last.again) =>
        /\ models[last.m].dom = last.dom
        /\ Len(models[last.m].dom) = Len(OptionsOf(last.m))

C11_Witness ==
    /\ last.op = "render" /\ last.again
    /\ Len(models[last.m].dom) = 3
    /\ models[last.m].dom = last.dom

\* C12: once the view has rendered, after every set( 'checked', ... ) and
\* every user toggle each control is checked exactly when its value is in the
\* model's checked list. (Refuted under SpecShared: with 'all' twice among the
\* options, unchecking one of the two 'all' controls submits the list the
\* model already holds, nothing is rendered and the control stays unchecked.)
C12_ViewNeverStale ==
    (Updated /\ models[last.m].view /\ models[last.m].dom # <<>>)
        => Mirrors(last.m)

\* C13: handleChange submits the values of the controls that are checked at
\* that moment, clicked or not, in document order, and a plain Backbone.Model
\* holds exactly that list afterwards.
C13_SubmitsCheckedControls ==
    (last.op = "toggle" /\ models[last.m].plain) =>
        LET live == SelectSeq(last.dom, LAMBDA x : x.checked)
        IN  /\ Len(last.arg) = Len(live)
            /\ \A k \in DOMAIN live : last.arg[k] = live[k].value
            /\ CheckedOf(last.m) = last.arg

C13_Witness ==
    /\ last.op = "toggle" /\ models[last.m].plain
    /\ Len(last.dom) = 2
    /\ \E k \in DOMAIN last.dom : k # last.n /\ ~last.dom[k].checked
    /\ last.dom[last.n].checked
    /\ CheckedOf(last.m) = <<last.dom[last.n].value>>

\* C14: with a ControlColor whose checked list holds no 'all', the user
\* checking the 'all' control leaves checked = [ 'all' ] and, after the
\* render of the notification, the 'all' control alone checked.
C14_UserChecksAll ==
    (/\ last.op = "toggle" /\ ~models[last.m].plain
     /\ last.dom[last.n].value = "all" /\ last.dom[last.n].checked
     /\ ~contains(last.prev, "all"))
        => /\ CheckedOf(last.m) = <<"all">>
           /\ Len(models[last.m].dom) = Len(OptionsOf(last.m))
           /\ \A k \in DOMAIN models[last.m].dom :
                 models[last.m].dom[k].checked = (models[last.m].dom[k].value = "all")

C14_Witness ==
    /\ last.op = "toggle" /\ ~models[last.m].plain
    /\ last.dom[last.n].value = "all" /\ last.dom[last.n].checked
    /\ Len(last.prev) = 2 /\ ~contains(last.prev, "all")
    /\ Len(last.arg) = 3
    /\ CheckedOf(last.m) = <<"all">>

\* C15: with a ControlColor whose checked list is [ 'all' ], the user
\* checking the control of another option o leaves checked = [ o ] and, after
\* the render of the notification, the 'all' control unchecked and o checked.
C15_UserChecksOther ==
    (/\ last.op = "toggle" /\ ~models[last.m].plain
     /\ last.dom[last.n].value # "all" /\ last.dom[last.n].checked
     /\ last.prev = <<"all">>)
        => /\ CheckedOf(last.m) = <<last.dom[last.n].value>>
           /\ \A k \in DOMAIN models[last.m].dom :
                 /\ models[last.m].dom[k].value = "all"
                        => ~models[last.m].dom[k].checked
                 /\ models[last.m].dom[k].value = last.dom[last.n].value
                        => models[last.m].dom[k].checked

C15_Witness ==
    /\ last.op = "toggle" /\ ~models[last.m].plain
    /\ last.prev = <<"all">>
    /\ last.arg = <<"green", "all">>
    /\ CheckedOf(last.m) = <<"green">>
    /\ Len(models[last.m].dom) = 3

\* C16: a ControlColor constructed with a checked list holding 'all' and
\* another identifier has checked = [ 'all' ] right after the construction.
\* (Refuted: the list is stored as given; updateChecked subscribes only after
\* the constructor has set the attributes.)
C16_ConstructionReconciles ==
    (/\ last.op = "new" /\ ~models[last.m].plain
     /\ contains(last.init, "all")
     /\ \E e \in Elems(last.init) : e # "all")
        => CheckedOf(last.m) = <<"all">>

\* C17: a set( 'checked', ... ) returns with updateChecked run at most once:
\* its corrective write does not run it again.
C17_ReconciledAtMostOnce ==
    Updated => last.updates <= 1

C17_Witness ==
    /\ Updated
    /\ contains(last.prev, "all") /\ Len(last.prev) = 1
    /\ contains(last.arg, "all") /\ Len(last.arg) = 3
    /\ CheckedOf(last.m) # last.arg
    /\ last.updates = 1

\* C18 as claimed: the value handed to a notified subscriber is the
\* reconciled checked list.
C18_Original ==
    (Updated /\ last.notes > 0) =>
        \A k \in DOMAIN last.payload : last.payload[k] = CheckedOf(last.m)

\* C18 as amended: the value handed to a notified subscriber is the list
\* passed to set; the reconciled list is what the subscriber reads from the
\* model during the notification, which is what render shows.
C18_PayloadIsRawList ==
    (Updated /\ last.notes > 0) =>
        /\ last.payload = <<last.arg>>
        /\ Mirrors(last.m)

C18_Witness ==
    /\ Updated /\ last.notes > 0
    /\ last.prev = <<"red">>
    /\ last.arg = <<"all", "red">>
    /\ last.payload = << <<"all", "red">> >>
    /\ CheckedOf(last.m) = <<"all">>

\* C19 as claimed: no set( 'checked', ... ) with a non-empty list leaves
\* checked empty.
C19_Original ==
    (Updated /\ last.arg # <<>>) => CheckedOf(last.m) # <<>>

\* C19 as amended: checked is empty only after a construction with an empty
\* list, or a set whose list is empty or holds nothing but 'all'; no set
\* whose list names an identifier other than 'all' leaves checked empty.
C19_EmptyOnlyFromEmptyOrAll ==
    /\ (Updated /\ \E e \in Elems(last.arg) : e # "all")
           => CheckedOf(last.m) # <<>>
    /\ (last.op = "new" /\ CheckedOf(last.m) = <<>>)
           => (last.given # "absent" /\ last.init = <<>>)

C19_Witness ==
    /\ Updated
    /\ last.prev = <<"all">>
    /\ last.arg = <<"all", "red">>
    /\ CheckedOf(last.m) = <<"red">>

\* C20: a set( 'checked', ... ) notifies the view exactly when the checked
\* list it leaves differs from the one it found; a set of the list already
\* stored notifies nobody and renders nothing.
C20_NotifiedIffChanged ==
    (Updated /\ models[last.m].view) =>
        /\ (last.notes > 0) <=> (CheckedOf(last.m) # last.prev)
        /\ (last.arg = last.prev) => (last.notes = 0 /\ last.payload = <<>>)

C20_Witness ==
    /\ last.op = "set" /\ models[last.m].view
    /\ models[last.m].dom # <<>>
    /\ last.arg = last.prev /\ last.arg # <<>>
    /\ last.notes = 0

----------------------------------------------------------------------------
\* Properties relating checked, options and the caller's lists.

\* C21: with a view bound to a ControlColor, after every user toggle every
\* identifier of the checked list is one of the options, whatever checked
\* list the model was constructed with.
C21_CheckedWithinOptions ==
    (last.op = "toggle" /\ ~models[last.m].plain) =>
        \A e \in Elems(CheckedOf(last.m)) : contains(OptionsOf(last.m), e)

C21_Witness ==
    /\ last.op = "toggle" /\ ~models[last.m].plain
    /\ \E e \in Elems(last.prev) : ~contains(OptionsOf(last.m), e)
    /\ CheckedOf(last.m) # <<>>
    /\ \A e \in Elems(CheckedOf(last.m)) : contains(OptionsOf(last.m), e)

\* C22: constructing a ControlColor from a list the caller supplies leaves
\* that list as the caller handed it over, so that every instance constructed
\* from it has 'all' exactly once among its options. (Refuted: initialize
\* pushes 'all' onto the caller's own array.)
C22_CallerListUntouched ==
    (last.op = "new" /\ ~models[last.m].plain
        /\ models[last.m].options # DefaultsOptions)
        => /\ heap[models[last.m].options] = last.arg
           /\ Count(OptionsOf(last.m), "all") = 1

====
